---- MODULE Spec2Model ----
(***************************************************************************)
(* Model of parser.py: link classification (SocialMediaParser), the three  *)
(* platform fetchers (VKParser, TelegramParser, OKParser) and main().      *)
(*                                                                         *)
(* Strings are sequences of one-character strings, so that the regular     *)
(* expressions of the classifier are computed character by character.     *)
(***************************************************************************)
EXTENDS Integers, Sequences, FiniteSets, TLC

(***************************************************************************)
(* Characters and string helpers                                           *)
(***************************************************************************)
Digit == {"0", "1", "2", "3", "4", "5", "6", "7", "8", "9"}

UpperLetters == <<"A","B","C","D","E","F","G","H","I","J","K","L","M",
                  "N","O","P","Q","R","S","T","U","V","W","X","Y","Z">>

LowerLetters == <<"a","b","c","d","e","f","g","h","i","j","k","l","m",
                  "n","o","p","q","r","s","t","u","v","w","x","y","z">>

(* \w of the re module, on the characters the links are written in *)
WordChar == Digit \cup {"_"} \cup {UpperLetters[k] : k \in 1..26}
                  \cup {LowerLetters[k] : k \in 1..26}

(* every character a modelled link is written in *)
Alphabet == WordChar \cup {".", "/", "-", "?", "=", "#", "@", ":"}

(* str.lower() *)
lower(s) ==
    [k \in 1..Len(s) |->
        IF \E u \in 1..26 : UpperLetters[u] = s[k]
        THEN LowerLetters[CHOOSE u \in 1..26 : UpperLetters[u] = s[k]]
        ELSE s[k]]

(* p occurs in s starting at index i *)
IsAt(p, s, i) ==
    /\ i >= 1
    /\ i + Len(p) - 1 <= Len(s)
    /\ \A k \in 1..Len(p) : s[i + k - 1] = p[k]

(* Python's  p in s  *)
Contains(s, p) == \E i \in 1..(Len(s) + 1) : IsAt(p, s, i)

(* Python's  s.startswith(p)  *)
startswith(s, p) == IsAt(p, s, 1)

(* length of the longest run of characters of C in s starting at index i:  *)
(* what a greedy  [C]*  consumes there                                     *)
Run(s, i, C) ==
    LET ns == {n \in 0..(Len(s) - i + 1) : \A k \in 0..(n - 1) : s[i + k] \in C}
    IN  IF i > Len(s) THEN 0 ELSE CHOOSE n \in ns : \A m \in ns : m <= n

(* s.split(c)[0]: the part of s before the first occurrence of c *)
split0(s, c) ==
    LET at == {i \in 1..Len(s) : s[i] = c}
    IN  IF at = {} THEN s
        ELSE SubSeq(s, 1, (CHOOSE i \in at : \A j \in at : i <= j) - 1)

DigitValue(c) == CHOOSE v \in 0..9 : <<"0","1","2","3","4","5","6","7","8","9">>[v + 1] = c

(* int(s) for a string of decimal digits *)
RECURSIVE int(_)
int(s) ==
    IF s = <<>> THEN 0
    ELSE 10 * int(SubSeq(s, 1, Len(s) - 1)) + DigitValue(s[Len(s)])

(* str(n) for an integer n, as f"{n}" formats it *)
RECURSIVE str(_)
str(n) ==
    IF n < 0 THEN <<"-">> \o str(0 - n)
    ELSE IF n < 10 THEN << <<"0","1","2","3","4","5","6","7","8","9">>[n + 1] >>
    ELSE str(n \div 10) \o << <<"0","1","2","3","4","5","6","7","8","9">>[(n % 10) + 1] >>

(***************************************************************************)
(* re.search: a match object is [found, g1, g2]; the leftmost match wins   *)
(***************************************************************************)
NoMatch == [found |-> FALSE, g1 |-> <<>>, g2 |-> <<>>]

Match(a, b) == [found |-> TRUE, g1 |-> a, g2 |-> b]

(* at[i] is what the pattern matches at index i of the string *)
re_search(at) ==
    LET hits == {i \in DOMAIN at : at[i].found}
    IN  IF hits = {} THEN NoMatch
        ELSE at[CHOOSE i \in hits : \A j \in hits : i <= j]

lit_wall == <<"w","a","l","l">>
lit_vk_com == <<"v","k",".","c","o","m">>
lit_t_me == <<"t",".","m","e">>
lit_telegram_me == <<"t","e","l","e","g","r","a","m",".","m","e">>
lit_ok_ru == <<"o","k",".","r","u">>
lit_topic == <<"/","t","o","p","i","c","/">>
lit_status == <<"/","s","t","a","t","u","s","/">>
lit_group == <<"g","r","o","u","p">>
lit_w_wall == <<"?","w","=","w","a","l","l","-">>

(* \d+_\d+ at index k: the end index of the match, 0 when there is none *)
OwnerPostEnd(s, k) ==
    LET n1 == Run(s, k, Digit)
        u  == k + n1
        n2 == Run(s, u + 1, Digit)
    IN  IF n1 >= 1 /\ u <= Len(s) /\ s[u] = "_" /\ n2 >= 1 THEN u + n2 ELSE 0

(* r'wall-?(\d+)_(\d+)' at index i *)
vk_pattern0(s, i) ==
    LET j  == i + Len(lit_wall)
        k  == IF j <= Len(s) /\ s[j] = "-" THEN j + 1 ELSE j
        n1 == Run(s, k, Digit)
        e  == OwnerPostEnd(s, k)
    IN  IF IsAt(lit_wall, s, i) /\ e > 0
        THEN Match(SubSeq(s, k, k + n1 - 1), SubSeq(s, k + n1 + 1, e))
        ELSE NoMatch

(* r'vk\.com/(?:wall)?(\d+_\d+)' at index i *)
vk_pattern1(s, i) ==
    LET j == i + Len(lit_vk_com) + 1
        k == IF IsAt(lit_wall, s, j) THEN j + Len(lit_wall) ELSE j
        e == OwnerPostEnd(s, k)
    IN  IF IsAt(lit_vk_com \o <<"/">>, s, i) /\ e > 0
        THEN Match(SubSeq(s, k, e), <<>>)
        ELSE NoMatch

(* r'vk\.com/(?:[\w\.]+)\?w=wall-(\d+_\d+)' at index i *)
vk_pattern2(s, i) ==
    LET j == i + Len(lit_vk_com) + 1
        n == Run(s, j, WordChar \cup {"."})
        k == j + n + Len(lit_w_wall)
        e == OwnerPostEnd(s, k)
    IN  IF IsAt(lit_vk_com \o <<"/">>, s, i) /\ n >= 1
           /\ IsAt(lit_w_wall, s, j + n) /\ e > 0
        THEN Match(SubSeq(s, k, e), <<>>)
        ELSE NoMatch

(* (?:t\.me|telegram\.me) at index i: the length matched, 0 when none *)
tg_host(s, i) ==
    IF IsAt(lit_t_me, s, i) THEN Len(lit_t_me)
    ELSE IF IsAt(lit_telegram_me, s, i) THEN Len(lit_telegram_me)
    ELSE 0

(* ([^/\?]+)/(\d+) at index j *)
ChannelMessage(s, j) ==
    LET n == Run(s, j, Alphabet \ {"/", "?"})
        d == Run(s, j + n + 1, Digit)
    IN  IF n >= 1 /\ j + n <= Len(s) /\ s[j + n] = "/" /\ d >= 1
        THEN Match(SubSeq(s, j, j + n - 1), SubSeq(s, j + n + 1, j + n + d))
        ELSE NoMatch

(* r'(?:t\.me|telegram\.me)/(?:s/)?([^/\?]+)/(\d+)' at index i: the greedy *)
(* (?:s/)? is tried first, then the match without it                       *)
tg_pattern0(s, i) ==
    LET h == tg_host(s, i)
        j == i + h + 1
    IN  IF h > 0 /\ IsAt(<<"/">>, s, i + h)
        THEN IF IsAt(<<"s", "/">>, s, j) /\ ChannelMessage(s, j + 2).found
             THEN ChannelMessage(s, j + 2)
             ELSE ChannelMessage(s, j)
        ELSE NoMatch

(* r'(?:t\.me|telegram\.me)/c/(\d+)/(\d+)' at index i *)
tg_pattern1(s, i) ==
    LET h == tg_host(s, i)
        j == i + h + 3
        n == Run(s, j, Digit)
        d == Run(s, j + n + 1, Digit)
    IN  IF h > 0 /\ IsAt(<<"/", "c", "/">>, s, i + h) /\ n >= 1
           /\ IsAt(<<"/">>, s, j + n) /\ d >= 1
        THEN Match(SubSeq(s, j, j + n - 1), SubSeq(s, j + n + 1, j + n + d))
        ELSE NoMatch

(* r'ok\.ru/([^/\?]+)<sep>(\d+)' at index i, sep being /topic/ or /status/ *)
ok_named(s, i, sep) ==
    LET j == i + Len(lit_ok_ru) + 1
        n == Run(s, j, Alphabet \ {"/", "?"})
        k == j + n + Len(sep)
        d == Run(s, k, Digit)
    IN  IF IsAt(lit_ok_ru \o <<"/">>, s, i) /\ n >= 1 /\ IsAt(sep, s, j + n) /\ d >= 1
        THEN Match(SubSeq(s, j, j + n - 1), SubSeq(s, k, k + d - 1))
        ELSE NoMatch

(* r'ok\.ru/([^/\?]+)/topic/(\d+)' *)
ok_pattern0(s, i) == ok_named(s, i, lit_topic)

(* r'ok\.ru/([^/\?]+)/status/(\d+)' *)
ok_pattern1(s, i) == ok_named(s, i, lit_status)

(* r'ok\.ru/(?:group)?(\d+)/topic/(\d+)' at index i *)
ok_pattern2(s, i) ==
    LET j0 == i + Len(lit_ok_ru) + 1
        j  == IF IsAt(lit_group, s, j0) THEN j0 + Len(lit_group) ELSE j0
        n  == Run(s, j, Digit)
        k  == j + n + Len(lit_topic)
        d  == Run(s, k, Digit)
    IN  IF IsAt(lit_ok_ru \o <<"/">>, s, i) /\ n >= 1 /\ IsAt(lit_topic, s, j + n) /\ d >= 1
        THEN Match(SubSeq(s, j, j + n - 1), SubSeq(s, k, k + d - 1))
        ELSE NoMatch

(***************************************************************************)
(* SocialMediaParser: the extractors return the post list after the call   *)
(* and whether a diagnostic was printed                                    *)
(***************************************************************************)
Extracted(posts, printed) == [posts |-> posts, printed |-> printed]

extract_vk_post(link, original_link, vk_posts) ==
    LET m0 == re_search([i \in 1..Len(link) |-> vk_pattern0(link, i)])
        m1 == re_search([i \in 1..Len(link) |-> vk_pattern1(link, i)])
        m2 == re_search([i \in 1..Len(link) |-> vk_pattern2(link, i)])
        owner_id == IF startswith(m0.g1, <<"-">>) THEN m0.g1 ELSE <<"-">> \o m0.g1
        post_id_str ==
            IF m0.found THEN owner_id \o <<"_">> \o m0.g2
            ELSE IF m1.found THEN m1.g1
            ELSE m2.g1
    IN  IF m0.found \/ m1.found \/ m2.found
        THEN Extracted(Append(vk_posts, [post_id |-> post_id_str,
                                         original_link |-> original_link]), FALSE)
        ELSE Extracted(vk_posts, FALSE)

extract_telegram_post(link, original_link, telegram_posts) ==
    LET clean_link == split0(split0(link, "?"), "#")
        m0 == re_search([i \in 1..Len(clean_link) |-> tg_pattern0(clean_link, i)])
        m1 == re_search([i \in 1..Len(clean_link) |-> tg_pattern1(clean_link, i)])
        m  == IF m0.found THEN m0 ELSE m1
        channel == IF startswith(m.g1, <<"@">>) THEN Tail(m.g1) ELSE m.g1
    IN  IF m.found
        THEN Extracted(Append(telegram_posts, [channel |-> channel,
                                               message_id |-> int(m.g2),
                                               original_link |-> original_link]), FALSE)
        ELSE Extracted(telegram_posts, TRUE)

extract_ok_post(link, original_link, ok_posts) ==
    LET m0 == re_search([i \in 1..Len(link) |-> ok_pattern0(link, i)])
        m1 == re_search([i \in 1..Len(link) |-> ok_pattern1(link, i)])
        m2 == re_search([i \in 1..Len(link) |-> ok_pattern2(link, i)])
        m  == IF m0.found THEN m0 ELSE IF m1.found THEN m1 ELSE m2
    IN  IF m.found
        THEN Extracted(Append(ok_posts, [group_name |-> m.g1,
                                         topic_id |-> m.g2,
                                         original_link |-> original_link]), FALSE)
        ELSE Extracted(ok_posts, TRUE)

(* classify_link with the Telegram test made before the VK test *)
classify_link_telegram_first(acc, link) ==
    LET link_lower == lower(link)
        v == extract_vk_post(link_lower, link, acc.vk)
        t == extract_telegram_post(link_lower, link, acc.telegram)
        o == extract_ok_post(link_lower, link, acc.ok)
        say(printed) == IF printed THEN Append(acc.printed, link) ELSE acc.printed
    IN  IF Contains(link_lower, lit_t_me) \/ Contains(link_lower, lit_telegram_me)
        THEN [acc EXCEPT !.telegram = t.posts, !.printed = say(t.printed)]
        ELSE IF Contains(link_lower, lit_vk_com) \/ startswith(link_lower, lit_wall)
        THEN [acc EXCEPT !.vk = v.posts, !.printed = say(v.printed)]
        ELSE IF Contains(link_lower, lit_ok_ru)
        THEN [acc EXCEPT !.ok = o.posts, !.printed = say(o.printed)]
        ELSE [acc EXCEPT !.printed = say(TRUE)]

(* classify_link with the lower-cased link handed on as the original link *)
classify_link_keeps_lowered(acc, link) ==
    LET link_lower == lower(link)
        v == extract_vk_post(link_lower, link_lower, acc.vk)
        t == extract_telegram_post(link_lower, link_lower, acc.telegram)
        o == extract_ok_post(link_lower, link_lower, acc.ok)
        say(printed) == IF printed THEN Append(acc.printed, link) ELSE acc.printed
    IN  IF Contains(link_lower, lit_vk_com) \/ startswith(link_lower, lit_wall)
        THEN [acc EXCEPT !.vk = v.posts, !.printed = say(v.printed)]
        ELSE IF Contains(link_lower, lit_t_me) \/ Contains(link_lower, lit_telegram_me)
        THEN [acc EXCEPT !.telegram = t.posts, !.printed = say(t.printed)]
        ELSE IF Contains(link_lower, lit_ok_ru)
        THEN [acc EXCEPT !.ok = o.posts, !.printed = say(o.printed)]
        ELSE [acc EXCEPT !.printed = say(TRUE)]

(* one iteration of the loop of extract_post_ids on the accumulated result *)
classify_link(acc, link) ==
    LET link_lower == lower(link)
        v == extract_vk_post(link_lower, link, acc.vk)
        t == extract_telegram_post(link_lower, link, acc.telegram)
        o == extract_ok_post(link_lower, link, acc.ok)
        say(printed) == IF printed THEN Append(acc.printed, link) ELSE acc.printed
    IN  IF Contains(link_lower, lit_vk_com) \/ startswith(link_lower, lit_wall)
        THEN [acc EXCEPT !.vk = v.posts, !.printed = say(v.printed)]
        ELSE IF Contains(link_lower, lit_t_me) \/ Contains(link_lower, lit_telegram_me)
        THEN [acc EXCEPT !.telegram = t.posts, !.printed = say(t.printed)]
        ELSE IF Contains(link_lower, lit_ok_ru)
        THEN [acc EXCEPT !.ok = o.posts, !.printed = say(o.printed)]
        ELSE [acc EXCEPT !.printed = say(TRUE)]

(* extract_post_ids(links): the three lists, and the links a diagnostic    *)
(* was printed for (console output, in print order).  A pass of the loop   *)
(* only appends to what the earlier passes left, so the result for a list  *)
(* is the result for its first links followed by the result for the rest;  *)
(* the list is halved to keep the evaluation of 100 links shallow.         *)
NoPosts == [vk |-> <<>>, telegram |-> <<>>, ok |-> <<>>, printed |-> <<>>]

(* the lists after the passes for some links, and then for more links *)
Followed(first, rest) ==
    [vk |-> first.vk \o rest.vk,
     telegram |-> first.telegram \o rest.telegram,
     ok |-> first.ok \o rest.ok,
     printed |-> first.printed \o rest.printed]

RECURSIVE extract_post_ids(_)
extract_post_ids(links) ==
    IF links = <<>> THEN NoPosts
    ELSE IF Len(links) = 1 THEN classify_link(NoPosts, links[1])
    ELSE Followed(extract_post_ids(SubSeq(links, 1, Len(links) \div 2)),
                  extract_post_ids(SubSeq(links, Len(links) \div 2 + 1, Len(links))))

(***************************************************************************)
(* ConfigManager.  An optional value is a sequence: None is <<>>, a value  *)
(* v is <<v>>.                                                             *)
(***************************************************************************)
None == <<>>

Some(v) == <<v>>

(* truth value of an optional string (None and "" are false) *)
truthy_str(o) == o # None /\ o[1] # ""

(* truth value of an optional integer (None and 0 are false) *)
truthy_int(o) == o # None /\ o[1] # 0

(* ConfigManager() when config.json does not exist *)
EmptyConfig ==
    [vk_token |-> None, telegram_api_id |-> None,
     telegram_api_hash |-> None, telegram_phone |-> None]

has_telegram_creds(cfg) ==
    /\ truthy_int(cfg.telegram_api_id)
    /\ truthy_str(cfg.telegram_api_hash)
    /\ truthy_str(cfg.telegram_phone)

has_vk_token(cfg) == truthy_str(cfg.vk_token)

(***************************************************************************)
(* SocialMediaParser.read_links_from_file on the lines of links.txt        *)
(***************************************************************************)
max_links == 100

(* read_links_from_file without the limit of lines 79-82 *)
read_links_from_file_uncapped(lines) ==
    LET nonblank(line) == line # <<>>
    IN  SelectSeq(lines, nonblank)

(* lines are the stripped lines of the file; [] when the file is missing *)
read_links_from_file(lines) ==
    LET nonblank(line) == line # <<>>
        links == SelectSeq(lines, nonblank)
    IN  IF Len(links) > max_links THEN SubSeq(links, 1, max_links) ELSE links

(***************************************************************************)
(* VKParser                                                                *)
(***************************************************************************)
Returned(total, data) == Some([total |-> total, data |-> data])

ViewResult(link, views) == [link |-> link, views |-> views]

(* setup_token: typed is what input() returned, stripped *)
setup_token(cfg, api_token, typed) ==
    IF typed # ""
    THEN [config |-> [cfg EXCEPT !.vk_token = Some(typed)], api_token |-> Some(typed)]
    ELSE [config |-> cfg, api_token |-> api_token]

(* lines 235-239 of get_views: the token the request will be sent with *)
vk_load_token(cfg, api_token, typed) ==
    IF ~has_vk_token(cfg)
    THEN IF ~truthy_str(cfg.vk_token)
         THEN LET s == setup_token(cfg, cfg.vk_token, typed)
              IN  [config |-> s.config, api_token |-> s.config.vk_token, prompts |-> 1]
         ELSE [config |-> cfg, api_token |-> cfg.vk_token, prompts |-> 0]
    ELSE [config |-> cfg, api_token |-> api_token, prompts |-> 0]

(* post_key and views of one item of response.items *)
post_key(item) == str(item.owner_id) \o <<"_">> \o str(item.id)

item_views(item) == IF item.views = None THEN 0 ELSE item.views[1]

(* post_views.get(post_id, 0) for the dict built from items: a later item  *)
(* overwrites an earlier one with the same key                             *)
post_views_get(items, post_id) ==
    LET at == {k \in 1..Len(items) : post_key(items[k]) = post_id}
    IN  IF at = {} THEN 0
        ELSE item_views(items[CHOOSE k \in at : \A j \in at : j <= k])

(* vk_loop with a post the response omits left out of the results *)
RECURSIVE vk_loop_skips_omitted(_, _, _)
vk_loop_skips_omitted(vk_posts, items, n) ==
    IF n = 0 THEN [total_views |-> 0, data |-> <<>>]
    ELSE LET prev  == vk_loop_skips_omitted(vk_posts, items, n - 1)
             views == post_views_get(items, vk_posts[n].post_id)
         IN  IF \E k \in 1..Len(items) : post_key(items[k]) = vk_posts[n].post_id
             THEN [total_views |-> prev.total_views + views,
                   data |-> Append(prev.data,
                                   ViewResult(vk_posts[n].original_link, views))]
             ELSE prev

(* vk_loop with the total taken from the first item of the response that  *)
(* has the post's key, the result from the last                            *)
RECURSIVE vk_loop_totals_first_item(_, _, _)
vk_loop_totals_first_item(vk_posts, items, n) ==
    IF n = 0 THEN [total_views |-> 0, data |-> <<>>]
    ELSE LET prev  == vk_loop_totals_first_item(vk_posts, items, n - 1)
             views == post_views_get(items, vk_posts[n].post_id)
             at    == {k \in 1..Len(items) : post_key(items[k]) = vk_posts[n].post_id}
             first == IF at = {} THEN 0
                      ELSE item_views(items[CHOOSE k \in at : \A j \in at : k <= j])
         IN  [total_views |-> prev.total_views + first,
              data |-> Append(prev.data, ViewResult(vk_posts[n].original_link, views))]

(* lines 278-288: total_views and vk_views_data after n passes of the loop *)
RECURSIVE vk_loop(_, _, _)
vk_loop(vk_posts, items, n) ==
    IF n = 0 THEN [total_views |-> 0, data |-> <<>>]
    ELSE LET prev  == vk_loop(vk_posts, items, n - 1)
             views == post_views_get(items, vk_posts[n].post_id)
         IN  [total_views |-> prev.total_views + views,
              data |-> Append(prev.data, ViewResult(vk_posts[n].original_link, views))]

(* vk_fetch without the test for an error object in the response *)
vk_fetch_ignores_error(vk_posts, reply) ==
    IF reply.kind # "json" THEN Returned(0, <<>>)
    ELSE LET done == vk_loop(vk_posts, reply.items, Len(vk_posts))
         IN  Returned(done.total_views, done.data)

(* lines 250-294: what get_views returns for the reply to its request *)
vk_fetch(vk_posts, reply) ==
    IF reply.kind # "json" THEN Returned(0, <<>>)
    ELSE IF reply.error THEN Returned(0, <<>>)
    ELSE LET done == vk_loop(vk_posts, reply.items, Len(vk_posts))
         IN  Returned(done.total_views, done.data)

(* vk_get_views without the test for an empty list of lines 231-232 *)
vk_get_views_no_empty_test(vk_posts, cfg, p, typed, reply) ==
    LET t == vk_load_token(cfg, p.api_token, typed)
    IN  IF ~truthy_str(t.api_token)
        THEN [config |-> t.config,
              parser |-> [p EXCEPT !.api_token = t.api_token,
                                   !.prompts = t.prompts,
                                   !.ret = Returned(0, <<>>)]]
        ELSE [config |-> t.config,
              parser |-> [p EXCEPT !.api_token = t.api_token,
                                   !.prompts = t.prompts,
                                   !.requests = 1,
                                   !.reply = Some(reply),
                                   !.ret = vk_fetch(vk_posts, reply)]]

(* VKParser.get_views, called on a parser in state p with the credential   *)
(* store cfg; typed answers the prompt and reply the request, when made    *)
vk_get_views(vk_posts, cfg, p, typed, reply) ==
    LET t == vk_load_token(cfg, p.api_token, typed)
    IN  IF vk_posts = <<>>
        THEN [config |-> cfg, parser |-> [p EXCEPT !.ret = Returned(0, <<>>)]]
        ELSE IF ~truthy_str(t.api_token)
        THEN [config |-> t.config,
              parser |-> [p EXCEPT !.api_token = t.api_token,
                                   !.prompts = t.prompts,
                                   !.ret = Returned(0, <<>>)]]
        ELSE [config |-> t.config,
              parser |-> [p EXCEPT !.api_token = t.api_token,
                                   !.prompts = t.prompts,
                                   !.requests = 1,
                                   !.reply = Some(reply),
                                   !.ret = vk_fetch(vk_posts, reply)]]

(***************************************************************************)
(* TelegramParser                                                          *)
(***************************************************************************)
IsDigits(s) == s # <<>> /\ \A k \in 1..Len(s) : s[k] \in Digit

(* all([self.api_id, self.api_hash, self.phone]) *)
tg_all(p) == truthy_int(p.api_id) /\ truthy_str(p.api_hash) /\ truthy_str(p.phone)

(* setup_credentials: typed holds the three answers to input(), stripped;  *)
(* int(api_id) raises ValueError unless api_id is a string of digits       *)
setup_credentials(cfg, p, typed) ==
    IF typed.api_id # <<>> /\ typed.api_hash # "" /\ typed.phone # ""
       /\ IsDigits(typed.api_id)
    THEN [config |-> [cfg EXCEPT !.telegram_api_id = Some(int(typed.api_id)),
                                 !.telegram_api_hash = Some(typed.api_hash),
                                 !.telegram_phone = Some(typed.phone)],
          parser |-> [p EXCEPT !.api_id = Some(int(typed.api_id)),
                               !.api_hash = Some(typed.api_hash),
                               !.phone = Some(typed.phone)]]
    ELSE [config |-> cfg, parser |-> p]

(* self.api_id, self.api_hash, self.phone read from the store *)
tg_read_config(cfg, p) ==
    [p EXCEPT !.api_id = cfg.telegram_api_id,
              !.api_hash = cfg.telegram_api_hash,
              !.phone = cfg.telegram_phone]

(* lines 353-362 of get_views_async *)
tg_load_creds(cfg, p, typed) ==
    IF ~has_telegram_creds(cfg)
    THEN IF ~tg_all(tg_read_config(cfg, p))
         THEN LET s == setup_credentials(cfg, tg_read_config(cfg, p), typed)
              IN  [config |-> s.config,
                   parser |-> [tg_read_config(s.config, s.parser) EXCEPT !.prompts = 1]]
         ELSE [config |-> cfg, parser |-> tg_read_config(cfg, p)]
    ELSE [config |-> cfg, parser |-> p]

(* get_views_async up to its first await (lines 349-366): it returns      *)
(* (0, []) for no posts and for missing credentials, else goes on to       *)
(* _connect                                                                *)
tg_begin(telegram_posts, cfg, p, typed) ==
    LET r == tg_load_creds(cfg, p, typed)
    IN  IF telegram_posts = <<>>
        THEN [config |-> cfg,
              parser |-> [p EXCEPT !.pc = "returned", !.ret = Returned(0, <<>>)]]
        ELSE IF ~tg_all(r.parser)
        THEN [config |-> r.config,
              parser |-> [r.parser EXCEPT !.pc = "returned",
                                          !.ret = Returned(0, <<>>)]]
        ELSE [config |-> r.config, parser |-> [r.parser EXCEPT !.pc = "connect"]]

(* getattr(message, 'views', 0) or 0 *)
message_views(reply) == IF reply.views = None THEN 0 ELSE reply.views[1]

(* tg_handle_reply with the rate-limit signal handled like any other error *)
tg_handle_reply_records_flood(p, post_info, reply) ==
    IF reply.kind = "message"
    THEN [p EXCEPT !.total_views = @ + message_views(reply),
                   !.data = Append(@, ViewResult(post_info.original_link,
                                                 message_views(reply))),
                   !.pc = "delay"]
    ELSE IF reply.kind = "flood"
    THEN [p EXCEPT !.data = Append(@, ViewResult(post_info.original_link, 0)),
                   !.pc = "floodwait", !.wait = reply.seconds]
    ELSE [p EXCEPT !.data = Append(@, ViewResult(post_info.original_link, 0)),
                   !.pc = "delay"]

(* tg_handle_reply with the loop left at the first error that is not a    *)
(* rate-limit signal                                                       *)
tg_handle_reply_error_breaks(p, post_info, reply) ==
    IF reply.kind = "message"
    THEN [p EXCEPT !.total_views = @ + message_views(reply),
                   !.data = Append(@, ViewResult(post_info.original_link,
                                                 message_views(reply))),
                   !.pc = "delay"]
    ELSE IF reply.kind = "flood"
    THEN [p EXCEPT !.pc = "floodwait", !.wait = reply.seconds]
    ELSE [p EXCEPT !.data = Append(@, ViewResult(post_info.original_link, 0)),
                   !.pc = "disconnect"]

(* one pass of the try statement of the loop (lines 378-402) for the reply *)
(* get_messages gave for post_info                                         *)
tg_handle_reply(p, post_info, reply) ==
    IF reply.kind = "message"
    THEN [p EXCEPT !.total_views = @ + message_views(reply),
                   !.data = Append(@, ViewResult(post_info.original_link,
                                                 message_views(reply))),
                   !.pc = "delay"]
    ELSE IF reply.kind = "flood"
    THEN [p EXCEPT !.pc = "floodwait", !.wait = reply.seconds]
    ELSE [p EXCEPT !.data = Append(@, ViewResult(post_info.original_link, 0)),
                   !.pc = "delay"]

(* the politeness delay after every post, in milliseconds (line 404) *)
tg_delay_ms == 500

(***************************************************************************)
(* OKParser                                                                *)
(***************************************************************************)
(* plausible with both limits of the filter admitted *)
plausible_inclusive(n) == 10 <= n /\ n <= 1000000

(* the filter  10 < int(n) < 1000000  applied to every collected number *)
plausible(n) == 10 < n /\ n < 1000000

(* _extract_views_from_html: numbers are the integers the three scans of   *)
(* the page collect, before the filter                                     *)
extract_views_from_html(numbers) ==
    LET all_numbers == {numbers[k] : k \in {j \in 1..Len(numbers) : plausible(numbers[j])}}
    IN  IF all_numbers = {} THEN 0
        ELSE CHOOSE n \in all_numbers : \A m \in all_numbers : m <= n

(* views of one post after the try statement of lines 436-448 *)
ok_post_views(reply) ==
    IF reply.kind = "page" /\ reply.status = 200
    THEN extract_views_from_html(reply.numbers)
    ELSE 0

(* the delay after every post, in milliseconds (line 456) *)
ok_delay_ms == 2000

(* what the loop has done before its first pass *)
OKLoopStart == [total_views |-> 0, data |-> <<>>, slept |-> 0, events |-> <<>>]

(* ok_loop with a post whose fetch failed left out of the results *)
RECURSIVE ok_loop_skips_failed(_, _, _)
ok_loop_skips_failed(ok_posts, replies, n) ==
    IF n = 0 THEN OKLoopStart
    ELSE LET prev  == ok_loop_skips_failed(ok_posts, replies, n - 1)
             views == ok_post_views(replies[n])
         IN  IF replies[n].kind = "transport"
             THEN [prev EXCEPT !.slept = @ + ok_delay_ms,
                               !.events = @ \o <<"get", "sleep">>]
             ELSE [total_views |-> prev.total_views + views,
                   data |-> Append(prev.data,
                                   ViewResult(ok_posts[n].original_link, views)),
                   slept |-> prev.slept + ok_delay_ms,
                   events |-> prev.events \o <<"get", "sleep">>]

(* ok_loop with views set to 0 once before the loop, not in every pass: a  *)
(* post whose fetch failed keeps the views of the post before it           *)
RECURSIVE ok_loop_keeps_stale_views(_, _, _)
ok_loop_keeps_stale_views(ok_posts, replies, n) ==
    IF n = 0 THEN OKLoopStart
    ELSE LET prev  == ok_loop_keeps_stale_views(ok_posts, replies, n - 1)
             views == IF replies[n].kind = "page" /\ replies[n].status = 200
                      THEN ok_post_views(replies[n])
                      ELSE IF n = 1 THEN 0 ELSE prev.data[n - 1].views
         IN  [total_views |-> prev.total_views + views,
              data |-> Append(prev.data, ViewResult(ok_posts[n].original_link, views)),
              slept |-> prev.slept + ok_delay_ms,
              events |-> prev.events \o <<"get", "sleep">>]

(* ok_loop with the delay inside the try statement: a post whose fetch     *)
(* raised is not followed by the delay                                     *)
RECURSIVE ok_loop_no_delay_after_failure(_, _, _)
ok_loop_no_delay_after_failure(ok_posts, replies, n) ==
    IF n = 0 THEN OKLoopStart
    ELSE LET prev   == ok_loop_no_delay_after_failure(ok_posts, replies, n - 1)
             views  == ok_post_views(replies[n])
             raised == replies[n].kind # "page"
         IN  [total_views |-> prev.total_views + views,
              data |-> Append(prev.data, ViewResult(ok_posts[n].original_link, views)),
              slept |-> prev.slept + (IF raised THEN 0 ELSE ok_delay_ms),
              events |-> prev.events
                            \o (IF raised THEN <<"get">> ELSE <<"get", "sleep">>)]

(* lines 432-456: total_views and ok_views_data after n passes of the loop; *)
(* replies[k] is what the fetch of ok_posts[k] met; events lists the calls *)
(* of session.get (line 438) and time.sleep (line 456) in the order made   *)
RECURSIVE ok_loop(_, _, _)
ok_loop(ok_posts, replies, n) ==
    IF n = 0 THEN OKLoopStart
    ELSE LET prev  == ok_loop(ok_posts, replies, n - 1)
             views == ok_post_views(replies[n])
         IN  [total_views |-> prev.total_views + views,
              data |-> Append(prev.data, ViewResult(ok_posts[n].original_link, views)),
              slept |-> prev.slept + ok_delay_ms,
              events |-> prev.events \o <<"get", "sleep">>]

(* OKParser.get_views *)
ok_get_views(ok_posts, p, replies) ==
    LET done == ok_loop(ok_posts, replies, Len(ok_posts))
    IN  IF ok_posts = <<>> THEN [p EXCEPT !.ret = Returned(0, <<>>)]
        ELSE [p EXCEPT !.replies = replies,
                       !.slept = done.slept,
                       !.events = done.events,
                       !.ret = Returned(done.total_views, done.data)]

(***************************************************************************)
(* Inputs: the links of links.txt, what the user types at a prompt, and    *)
(* what the remote services answer                                         *)
(***************************************************************************)
MaxLinks == 3

link_vk1 == <<"w","a","l","l","-","1","_","2">>
link_vk2 == <<"V","K",".","c","o","m","/","w","a","l","l","1","_","3">>
link_tg1 == <<"t",".","m","e","/","a","/","1">>
link_tg2 == <<"t",".","m","e","/","a","/","2">>
link_tg3 == <<"t",".","m","e","/","a","/","3">>
link_ok1 == <<"o","k",".","r","u","/","g","/","t","o","p","i","c","/","7">>
link_unknown == <<"x",".","y","/","z">>

(* links.txt holds a selection, in order, of at most MaxLinks of these lines *)
FileLines == <<link_vk1, link_vk2, link_tg1, link_tg2, link_tg3,
               link_ok1, link_ok1, link_unknown>>

RECURSIVE Selection(_, _)
Selection(lines, picked) ==
    IF lines = <<>> THEN <<>>
    ELSE IF Len(lines) \in picked
    THEN Append(Selection(SubSeq(lines, 1, Len(lines) - 1), picked), lines[Len(lines)])
    ELSE Selection(SubSeq(lines, 1, Len(lines) - 1), picked)

InputLists ==
    {Selection(FileLines, picked) :
        picked \in {q \in SUBSET (1..Len(FileLines)) : Cardinality(q) <= MaxLinks}}

(* files of more lines than max_links: 102 links of which only the last    *)
(* three are posts, and 101 links and a blank line of which the first and  *)
(* the last two are posts                                                  *)
Repeat(line, n) == [k \in 1..n |-> line]

LongFiles ==
    {Repeat(link_unknown, max_links - 1) \o <<link_tg1, link_vk1, link_ok1>>,
     <<link_ok1, <<>>>> \o Repeat(link_unknown, max_links - 2) \o <<link_vk1, link_tg1>>}

TokenInputs == {"", "tok"}

TelegramInputs ==
    [api_id : {<<>>, <<"x">>, <<"7">>}, api_hash : {"", "h"}, phone : {"", "+7"}]

VKItem(owner_id, id, views) == [owner_id |-> owner_id, id |-> id, views |-> views]

VKItemLists ==
    {<<>>,
     <<VKItem(-1, 2, Some(100))>>,
     <<VKItem(-1, 3, Some(7))>>,
     <<VKItem(-1, 2, Some(100)), VKItem(-1, 3, Some(7))>>,
     <<VKItem(-1, 3, Some(7)), VKItem(-1, 2, None)>>,
     <<VKItem(-1, 2, Some(100)), VKItem(-1, 2, Some(60))>>}

VKReplies ==
    [kind : {"transport", "http"}, error : {FALSE}, items : {<<>>}]
    \cup [kind : {"json"}, error : {FALSE}, items : VKItemLists]
    \cup [kind : {"json"}, error : {TRUE},
          items : {<<>>, <<VKItem(-1, 2, Some(100)), VKItem(-1, 3, Some(7))>>}]

TelegramReplies ==
    [kind : {"message"}, views : {None, Some(10), Some(20)}, seconds : {0}]
    \cup [kind : {"flood"}, views : {None}, seconds : {5}]
    \cup [kind : {"error"}, views : {None}, seconds : {0}]

OKReplies ==
    [kind : {"page"}, status : {200},
     numbers : {<<>>, <<5, 2000000>>, <<5, 1234, 2000000>>, <<50, 11>>, <<10, 1000000>>}]
    \cup [kind : {"page"}, status : {404}, numbers : {<<1234>>}]
    \cup [kind : {"transport", "extraction"}, status : {0}, numbers : {<<>>}]

(***************************************************************************)
(* State                                                                   *)
(***************************************************************************)
VARIABLES
    pc,              \* where main() is
    config,          \* ConfigManager.config, persisted in config.json
    file,            \* the stripped lines of links.txt as the run found it
    links,           \* main's links
    vk_posts, telegram_posts, ok_posts,   \* posts_data
    printed,         \* links a classification diagnostic was printed for
    vk,              \* the VKParser and what its get_views did
    tg,              \* the TelegramParser and the locals of get_views_async
    okp,             \* the OKParser's get_views
    total_views,     \* main's total_views
    outcome          \* what main reported

vars == <<pc, config, file, links, vk_posts, telegram_posts, ok_posts, printed,
          vk, tg, okp, total_views, outcome>>

NewVKParser ==
    [api_token |-> None, prompts |-> 0, requests |-> 0, reply |-> None, ret |-> None]

NewTelegramParser ==
    [api_id |-> None, api_hash |-> None, phone |-> None, prompts |-> 0,
     pc |-> "idle", client |-> "none", starts |-> 0, disconnects |-> 0,
     i |-> 0, total_views |-> 0, data |-> <<>>, wait |-> 0,
     replies |-> <<>>, slept |-> 0, ret |-> None]

NewOKParser == [replies |-> <<>>, slept |-> 0, events |-> <<>>, ret |-> None]

(* main() up to line 508, for the credential store cfg *)
Started(cfg) ==
    /\ pc = "start"
    /\ config = cfg
    /\ file = <<>>
    /\ links = <<>>
    /\ vk_posts = <<>> /\ telegram_posts = <<>> /\ ok_posts = <<>>
    /\ printed = <<>>
    /\ vk = NewVKParser
    /\ tg = NewTelegramParser
    /\ okp = NewOKParser
    /\ total_views = 0
    /\ outcome = "none"

Init == Started(EmptyConfig)

(***************************************************************************)
(* main()                                                                  *)
(***************************************************************************)
Total(ret) == ret[1].total

(* lines 511-513 *)
ReadLinks ==
    /\ pc = "start"
    /\ \E lines \in InputLists \cup LongFiles :
          /\ file' = lines
          /\ links' = read_links_from_file(lines)
          /\ pc' = IF read_links_from_file(lines) = <<>> THEN "done" ELSE "classify"
    /\ UNCHANGED <<config, vk_posts, telegram_posts, ok_posts, printed,
                   vk, tg, okp, total_views, outcome>>

(* lines 518-522 *)
Classify ==
    /\ pc = "classify"
    /\ LET posts_data == extract_post_ids(links)
       IN  /\ vk_posts' = posts_data.vk
           /\ telegram_posts' = posts_data.telegram
           /\ ok_posts' = posts_data.ok
           /\ printed' = posts_data.printed
    /\ pc' = "vk"
    /\ UNCHANGED <<config, file, links, vk, tg, okp, total_views, outcome>>

(* lines 533-535 *)
MainVK ==
    /\ pc = "vk"
    /\ \E typed \in TokenInputs, reply \in VKReplies :
          LET r == vk_get_views(vk_posts, config, vk, typed, reply)
          IN  IF vk_posts = <<>>
              THEN UNCHANGED <<config, vk, total_views>>
              ELSE /\ config' = r.config
                   /\ vk' = r.parser
                   /\ total_views' = total_views + Total(r.parser.ret)
    /\ pc' = "telegram"
    /\ UNCHANGED <<file, links, vk_posts, telegram_posts, ok_posts, printed, tg, okp, outcome>>

(* a fetcher is running: called by main (lines 535, 540, 545), or called   *)
(* on its own (pc = "direct")                                              *)
InTelegramCall == pc \in {"telegram", "direct"}

(* get_views_async returns ret to get_views, asyncio.run and its caller:   *)
(* main adds the subtotal (line 540)                                       *)
TgReturn(p, ret) ==
    /\ tg' = [p EXCEPT !.pc = "returned", !.ret = ret]
    /\ total_views' = IF pc = "direct" THEN total_views ELSE total_views + Total(ret)
    /\ pc' = IF pc = "direct" THEN "direct" ELSE "ok"

(* an exception leaves get_views: it ends main, which catches nothing *)
TgRaise == pc' = IF pc = "direct" THEN "direct" ELSE "crashed"

(* lines 538-539 and 349-366: the call, up to the first await *)
TgStart ==
    /\ pc = "telegram"
    /\ tg.pc = "idle"
    /\ \E typed \in TelegramInputs :
          LET r == tg_begin(telegram_posts, config, tg, typed)
          IN  IF telegram_posts = <<>>
              THEN /\ pc' = "ok"
                   /\ UNCHANGED <<config, tg, total_views>>
              ELSE IF r.parser.ret # None
              THEN /\ config' = r.config
                   /\ TgReturn(r.parser, r.parser.ret)
              ELSE /\ config' = r.config
                   /\ tg' = r.parser
                   /\ UNCHANGED <<pc, total_views>>
    /\ UNCHANGED <<file, links, vk_posts, telegram_posts, ok_posts, printed, vk, okp, outcome>>

(* TgConnect with the result of _connect ignored: the loop is entered      *)
(* although client.start() raised                                          *)
TgConnect_ignores_failure ==
    /\ InTelegramCall
    /\ tg.pc = "connect"
    /\ \E result \in {"connected", "start_raises", "client_raises"} :
          LET created == IF result = "client_raises" THEN tg
                         ELSE [tg EXCEPT !.client = "created", !.starts = @ + 1]
          IN  IF result = "connected"
              THEN /\ tg' = [created EXCEPT !.client = "connected",
                                            !.pc = "fetch", !.i = 1,
                                            !.total_views = 0, !.data = <<>>]
                   /\ UNCHANGED <<pc, total_views>>
              ELSE IF result = "start_raises"
              THEN /\ tg' = [created EXCEPT !.pc = "fetch", !.i = 1,
                                            !.total_views = 0, !.data = <<>>]
                   /\ UNCHANGED <<pc, total_views>>
              ELSE TgReturn(created, Returned(0, <<>>))
    /\ UNCHANGED <<config, file, links, vk_posts, telegram_posts, ok_posts, printed,
                   vk, okp, outcome>>

(* _connect (lines 337-345) and lines 368-375 *)
TgConnect ==
    /\ InTelegramCall
    /\ tg.pc = "connect"
    /\ \E result \in {"connected", "start_raises", "client_raises"} :
          LET created == IF result = "client_raises" THEN tg
                         ELSE [tg EXCEPT !.client = "created", !.starts = @ + 1]
          IN  IF result = "connected"
              THEN /\ tg' = [created EXCEPT !.client = "connected",
                                            !.pc = "fetch", !.i = 1,
                                            !.total_views = 0, !.data = <<>>]
                   /\ UNCHANGED <<pc, total_views>>
              ELSE TgReturn(created, Returned(0, <<>>))
    /\ UNCHANGED <<config, file, links, vk_posts, telegram_posts, ok_posts, printed,
                   vk, okp, outcome>>

(* lines 378-402: get_messages for post i and the handling of its reply *)
TgGetMessages ==
    /\ InTelegramCall
    /\ tg.pc = "fetch"
    /\ \E reply \in TelegramReplies :
          tg' = [tg_handle_reply(tg, telegram_posts[tg.i], reply)
                    EXCEPT !.replies = Append(@, reply)]
    /\ UNCHANGED <<pc, config, file, links, vk_posts, telegram_posts, ok_posts, printed,
                   vk, okp, total_views, outcome>>

(* line 396: asyncio.sleep(e.seconds) *)
TgFloodSleep ==
    /\ InTelegramCall
    /\ tg.pc = "floodwait"
    /\ tg' = [tg EXCEPT !.slept = @ + 1000 * tg.wait, !.wait = 0, !.pc = "delay"]
    /\ UNCHANGED <<pc, config, file, links, vk_posts, telegram_posts, ok_posts, printed,
                   vk, okp, total_views, outcome>>

(* line 404, and the next pass of the for statement *)
TgDelay ==
    /\ InTelegramCall
    /\ tg.pc = "delay"
    /\ tg' = [tg EXCEPT !.slept = @ + tg_delay_ms,
                        !.i = @ + 1,
                        !.pc = IF tg.i < Len(telegram_posts) THEN "fetch" ELSE "disconnect"]
    /\ UNCHANGED <<pc, config, file, links, vk_posts, telegram_posts, ok_posts, printed,
                   vk, okp, total_views, outcome>>

(* lines 406-407: disconnect() returns, or raises through asyncio.run and main *)
TgDisconnect ==
    /\ InTelegramCall
    /\ tg.pc = "disconnect"
    /\ \E result \in {"disconnected", "raises"} :
          LET p == [tg EXCEPT !.disconnects = @ + 1]
          IN  IF result = "disconnected"
              THEN TgReturn([p EXCEPT !.client = "disconnected"],
                            Returned(p.total_views, p.data))
              ELSE /\ tg' = [p EXCEPT !.pc = "raised"]
                   /\ TgRaise
                   /\ UNCHANGED total_views
    /\ UNCHANGED <<config, file, links, vk_posts, telegram_posts, ok_posts, printed,
                   vk, okp, outcome>>

(* the run is aborted from outside while get_views_async is suspended in   *)
(* an await of the loop: KeyboardInterrupt and CancelledError are not      *)
(* Exceptions, no except clause catches them and there is no finally       *)
TgAbort ==
    /\ InTelegramCall
    /\ tg.pc \in {"fetch", "floodwait", "delay"}
    /\ tg' = [tg EXCEPT !.pc = "aborted"]
    /\ TgRaise
    /\ UNCHANGED <<config, file, links, vk_posts, telegram_posts, ok_posts, printed,
                   vk, okp, total_views, outcome>>

(* lines 543-545 *)
MainOK ==
    /\ pc = "ok"
    /\ IF ok_posts = <<>>
       THEN UNCHANGED <<okp, total_views>>
       ELSE \E replies \in [1..Len(ok_posts) -> OKReplies] :
               /\ okp' = ok_get_views(ok_posts, okp, replies)
               /\ total_views' = total_views + Total(ok_get_views(ok_posts, okp, replies).ret)
    /\ pc' = "report"
    /\ UNCHANGED <<config, file, links, vk_posts, telegram_posts, ok_posts, printed,
                   vk, tg, outcome>>

(* Report with the total reported whatever it is *)
Report_always_total ==
    /\ pc = "report"
    /\ outcome' = "total"
    /\ pc' = "done"
    /\ UNCHANGED <<config, file, links, vk_posts, telegram_posts, ok_posts, printed,
                   vk, tg, okp, total_views>>

(* lines 550-557 *)
Report ==
    /\ pc = "report"
    /\ outcome' = IF total_views > 0 THEN "total" ELSE "no_data"
    /\ pc' = "done"
    /\ UNCHANGED <<config, file, links, vk_posts, telegram_posts, ok_posts, printed,
                   vk, tg, okp, total_views>>

(* the program is run again: main() constructs everything anew, and        *)
(* ConfigManager loads what the earlier run saved in config.json           *)
RunAgain ==
    /\ pc \in {"done", "crashed"}
    /\ pc' = "start"
    /\ config' = config
    /\ file' = <<>>
    /\ links' = <<>>
    /\ vk_posts' = <<>> /\ telegram_posts' = <<>> /\ ok_posts' = <<>>
    /\ printed' = <<>>
    /\ vk' = NewVKParser
    /\ tg' = NewTelegramParser
    /\ okp' = NewOKParser
    /\ total_views' = 0
    /\ outcome' = "none"

Next ==
    \/ ReadLinks
    \/ Classify
    \/ MainVK
    \/ TgStart
    \/ TgConnect
    \/ TgGetMessages
    \/ TgFloodSleep
    \/ TgDelay
    \/ TgDisconnect
    \/ TgAbort
    \/ MainOK
    \/ Report
    \/ RunAgain

Spec == Init /\ [][Next]_vars

(***************************************************************************)
(* The classifier on its own: extract_post_ids applied to lists of links   *)
(* of every form the patterns are written for, and of forms they reject    *)
(***************************************************************************)
MaxClassified == 2

(* the forms of VK links, for owner digits o and post digits p *)
vk_wall_dash(o, p) == lit_wall \o <<"-">> \o o \o <<"_">> \o p

vk_wall(o, p) == lit_wall \o o \o <<"_">> \o p

vk_com_wall(o, p) == lit_vk_com \o <<"/">> \o lit_wall \o o \o <<"_">> \o p

vk_com_bare(o, p) == lit_vk_com \o <<"/">> \o o \o <<"_">> \o p

vk_com_w(o, p) == lit_vk_com \o <<"/","c","l","u","b">> \o lit_w_wall \o o \o <<"_">> \o p

(* the forms of Telegram links, for a host, a channel and message digits *)
tg_private(host, c, m) == host \o <<"/","c","/">> \o c \o <<"/">> \o m

tg_public(host, c, m) == host \o <<"/">> \o c \o <<"/">> \o m

tg_public_s(host, c, m) == host \o <<"/","s","/">> \o c \o <<"/">> \o m

OwnerDigits == {<<"1","2","3">>, <<"7">>}

PostDigits == {<<"4","5","6">>}

TgHosts == {lit_t_me, lit_telegram_me}

ChannelDigits == {<<"1","2","3">>}

ChannelNames == {<<"c","h","a","n">>, <<"@","c","h","a","n">>}

MessageDigits == {<<"4","5","6">>, <<"0","7">>}

VKFormLinks ==
    UNION {{vk_wall_dash(o, p), vk_wall(o, p), vk_com_wall(o, p),
            vk_com_bare(o, p), vk_com_w(o, p)} : o \in OwnerDigits, p \in PostDigits}

TgPrivateLinks == {tg_private(h, c, m) : h \in TgHosts, c \in ChannelDigits, m \in MessageDigits}

TgPublicLinks ==
    UNION {{tg_public(h, c, m), tg_public_s(h, c, m)} :
              h \in TgHosts, c \in ChannelNames, m \in {<<"4","5","6">>}}

OtherLinks ==
    {<<"V","K",".","c","o","m","/","W","a","l","l","-","1","_","2">>,
     <<"v","k",".","c","o","m","/","f","e","e","d">>,
     <<"w","a","l","l">>,
     <<"t",".","m","e","/","c","h","a","n","/","4","2","?","x","=","1">>,
     <<"t",".","m","e","/","c","h","a","n">>,
     <<"t",".","m","e","/","v","k",".","c","o","m","/","1">>,
     <<"o","k",".","r","u","/","g","r","p","/","t","o","p","i","c","/","7">>,
     <<"o","k",".","r","u","/","g","r","p","/","s","t","a","t","u","s","/","8">>,
     <<"o","k",".","r","u","/","g","r","o","u","p","5","/","t","o","p","i","c","/","9">>,
     <<"o","k",".","r","u","/","p","r","o","f","i","l","e">>,
     <<"o","k",".","r","u","/","t",".","m","e","/","x","/","1">>,
     <<"e","x","a","m","p","l","e",".","o","r","g","/","1">>}

ClassifiedLinks == VKFormLinks \cup TgPrivateLinks \cup TgPublicLinks \cup OtherLinks

ClassifiedLists == UNION {[1..n -> ClassifiedLinks] : n \in 1..MaxClassified}

(* main() at line 518, with the links read *)
InitClassify ==
    /\ pc = "classify"
    /\ config = EmptyConfig
    /\ links \in ClassifiedLists
    /\ file = links
    /\ vk_posts = <<>> /\ telegram_posts = <<>> /\ ok_posts = <<>>
    /\ printed = <<>>
    /\ vk = NewVKParser
    /\ tg = NewTelegramParser
    /\ okp = NewOKParser
    /\ total_views = 0
    /\ outcome = "none"

NextClassify == Classify

SpecClassify == InitClassify /\ [][NextClassify]_vars

(***************************************************************************)
(* The fetchers called on their own: get_views of each parser applied to a *)
(* list of posts, the empty list among them, with and without stored       *)
(* credentials.  FetchersSpec has these calls beside the runs of main.     *)
(***************************************************************************)
(* config.json with a VK token and the Telegram triple *)
StoredConfig ==
    [EmptyConfig EXCEPT !.vk_token = Some("tok"),
                        !.telegram_api_id = Some(7),
                        !.telegram_api_hash = Some("h"),
                        !.telegram_phone = Some("+7")]

(* what the classifier makes of one link of each platform: the lists       *)
(* extract_post_ids gives for link_vk1, link_tg1 and link_ok1              *)
OnePostLists ==
    [vk |-> <<[post_id |-> <<"-","1","_","2">>, original_link |-> link_vk1]>>,
     telegram |-> <<[channel |-> <<"a">>, message_id |-> 1, original_link |-> link_tg1]>>,
     ok |-> <<[group_name |-> <<"g">>, topic_id |-> <<"7">>, original_link |-> link_ok1]>>]

InitFetchers ==
    /\ pc = "direct"
    /\ config \in {EmptyConfig, StoredConfig}
    /\ file = <<>>
    /\ links = <<>>
    /\ vk_posts \in {<<>>, OnePostLists.vk}
    /\ telegram_posts \in {<<>>, OnePostLists.telegram}
    /\ ok_posts \in {<<>>, OnePostLists.ok}
    /\ printed = <<>>
    /\ vk = NewVKParser
    /\ tg = NewTelegramParser
    /\ okp = NewOKParser
    /\ total_views = 0
    /\ outcome = "none"

(* vk_parser.get_views(vk_posts) *)
DirectVK ==
    /\ pc = "direct"
    /\ vk.ret = None
    /\ \E typed \in TokenInputs, reply \in VKReplies :
          LET r == vk_get_views(vk_posts, config, vk, typed, reply)
          IN  /\ config' = r.config
              /\ vk' = r.parser
    /\ UNCHANGED <<pc, file, links, vk_posts, telegram_posts, ok_posts, printed,
                   tg, okp, total_views, outcome>>

(* telegram_parser.get_views(telegram_posts), up to the first await *)
DirectTelegram ==
    /\ pc = "direct"
    /\ tg.pc = "idle"
    /\ \E typed \in TelegramInputs :
          LET r == tg_begin(telegram_posts, config, tg, typed)
          IN  /\ config' = r.config
              /\ tg' = r.parser
    /\ UNCHANGED <<pc, file, links, vk_posts, telegram_posts, ok_posts, printed,
                   vk, okp, total_views, outcome>>

(* ok_parser.get_views(ok_posts) *)
DirectOK ==
    /\ pc = "direct"
    /\ okp.ret = None
    /\ \E replies \in [1..Len(ok_posts) -> OKReplies] :
          okp' = ok_get_views(ok_posts, okp, replies)
    /\ UNCHANGED <<pc, config, file, links, vk_posts, telegram_posts, ok_posts, printed,
                   vk, tg, total_views, outcome>>

NextFetchers ==
    \/ DirectVK
    \/ DirectTelegram
    \/ DirectOK
    \/ Next

FetchersSpec == (Init \/ InitFetchers) /\ [][NextFetchers]_vars

(***************************************************************************)
(* Properties                                                              *)
(***************************************************************************)
RECURSIVE SumViews(_)
SumViews(data) ==
    IF data = <<>> THEN 0
    ELSE SumViews(SubSeq(data, 1, Len(data) - 1)) + data[Len(data)].views

(* how many entries of the sequence s of links are the link l *)
Count(s, l) == Cardinality({k \in 1..Len(s) : s[k] = l})

RefLinks(posts) == [k \in 1..Len(posts) |-> posts[k].original_link]

ResultLinks(data) == [k \in 1..Len(data) |-> data[k].link]

(* the View Results a fetcher has produced so far *)
DataOf(ret) == IF ret = None THEN <<>> ELSE ret[1].data

VKProduced == ResultLinks(DataOf(vk.ret))

TgProduced == ResultLinks(tg.data)

OKProduced == ResultLinks(DataOf(okp.ret))

AllRefLinks == RefLinks(vk_posts) \o RefLinks(telegram_posts) \o RefLinks(ok_posts)

(* C1 (as claimed): when the credential store holds the VK token (the      *)
(* Telegram triple) at the start of get_views (get_views_async) with       *)
(* non-empty input, the fetcher does not prompt and goes on to the request *)
(* (the connection attempt) instead of returning for lack of credentials.  *)
C1_StoredCredentialIsUsed ==
    [][ /\ (pc = "vk" /\ vk_posts # <<>> /\ has_vk_token(config))
            => (vk'.prompts = 0 /\ vk'.requests = 1)
        /\ (pc = "telegram" /\ tg.pc = "idle" /\ telegram_posts # <<>>
              /\ has_telegram_creds(config))
            => (tg'.prompts = 0 /\ tg'.pc = "connect") ]_vars

C3_TornDownExactlyOnce ==
    (tg.pc \in {"returned", "raised", "aborted"} /\ tg.starts > 0)
        => tg.disconnects = 1

(* the results and the total the replies received so far account for, a    *)
(* rate-limit signal accounting for nothing                                *)
RECURSIVE TgRecorded(_, _)
TgRecorded(posts, replies) ==
    IF replies = <<>> THEN <<>>
    ELSE LET n    == Len(replies)
             prev == TgRecorded(posts, SubSeq(replies, 1, n - 1))
         IN  IF replies[n].kind = "flood" THEN prev
             ELSE Append(prev, posts[n].original_link)

RECURSIVE FloodSeconds(_)
FloodSeconds(replies) ==
    IF replies = <<>> THEN 0
    ELSE FloodSeconds(SubSeq(replies, 1, Len(replies) - 1))
            + (IF replies[Len(replies)].kind = "flood"
               THEN replies[Len(replies)].seconds ELSE 0)

(* C4: the k-th reply is the reply to the k-th post (no post is tried      *)
(* twice); a rate-limited post has no View Result and adds nothing to the  *)
(* total; the fetcher has slept the signalled seconds for every rate-limit *)
(* signal handled, besides one delay per finished attempt; and a fetch     *)
(* that reaches its return has tried every post.                           *)
C4_RateLimitedPostIsSkipped ==
    LET n == Len(tg.replies)
        handled == IF tg.pc = "floodwait" THEN SubSeq(tg.replies, 1, n - 1)
                   ELSE tg.replies
        delays == IF tg.pc \in {"floodwait", "delay"} THEN n - 1 ELSE n
        finished == tg.pc = "returned" /\ tg.disconnects = 1
    IN  /\ n <= Len(telegram_posts)
        /\ tg.pc = "fetch" => n = tg.i - 1
        /\ tg.pc \in {"floodwait", "delay"} => n = tg.i
        /\ tg.pc = "floodwait" =>
              tg.replies[n].kind = "flood" /\ tg.wait = tg.replies[n].seconds
        /\ TgProduced = TgRecorded(telegram_posts, tg.replies)
        /\ tg.total_views = SumViews(tg.data)
        /\ (tg.pc \in {"fetch", "floodwait", "delay", "disconnect"} \/ finished) =>
              tg.slept = 1000 * FloodSeconds(handled) + tg_delay_ms * delays
        /\ finished =>
              /\ n = Len(telegram_posts)
              /\ tg.ret = Returned(tg.total_views, tg.data)

(* posts #1 and #3 answered with 10 and 20 views, post #2 rate-limited     *)
(* with a wait of 5 seconds: results for #1 and #3 only, total 30          *)
C4_Witness ==
    /\ tg.pc = "returned"
    /\ RefLinks(telegram_posts) = <<link_tg1, link_tg2, link_tg3>>
    /\ tg.replies = <<[kind |-> "message", views |-> Some(10), seconds |-> 0],
                      [kind |-> "flood", views |-> None, seconds |-> 5],
                      [kind |-> "message", views |-> Some(20), seconds |-> 0]>>
    /\ tg.ret = Returned(30, <<ViewResult(link_tg1, 10), ViewResult(link_tg3, 20)>>)
    /\ tg.slept = 5000 + 3 * tg_delay_ms

(* the subtotal a fetcher returned, 0 for a fetcher that was not invoked *)
Subtotal(ret) == IF ret = None THEN 0 ELSE ret[1].total

(* C5 (as claimed): no failure inside a platform's fetch ends the run: the *)
(* run only stops early when it is aborted from outside, and a finished    *)
(* run has invoked the fetcher of every platform that has references, has  *)
(* added every subtotal and has reported a total or the no-data outcome.   *)
C5_PlatformsAreIsolated ==
    /\ pc = "crashed" => tg.pc = "aborted"
    /\ (pc = "done" /\ links # <<>>) =>
          /\ vk_posts # <<>> => vk.ret # None
          /\ telegram_posts # <<>> => tg.ret # None
          /\ ok_posts # <<>> => okp.ret # None
          /\ total_views = Subtotal(vk.ret) + Subtotal(tg.ret) + Subtotal(okp.ret)
          /\ outcome \in {"total", "no_data"}

(* C6: when the request of VKParser.get_views met a transport failure, a   *)
(* non-success HTTP status or a response with an error object, get_views   *)
(* returned (0, []), whatever items the response carried.                  *)
C6_VKFailureReturnsNothing ==
    (vk.reply # None /\ (vk.reply[1].kind # "json" \/ vk.reply[1].error))
        => vk.ret = Returned(0, <<>>)

(* an error object in a response that also carries the items of the posts *)
C6_Witness ==
    /\ vk.reply # None
    /\ vk.reply[1].kind = "json" /\ vk.reply[1].error
    /\ Len(vk.reply[1].items) = 2
    /\ Len(vk_posts) = 2
    /\ vk.ret = Returned(0, <<>>)

(* the views the items of a response give the composite id post_id: those  *)
(* of the last item whose owner_id and id format to it                     *)
ResponseViews(items, post_id) ==
    LET same == {k \in 1..Len(items) :
                    str(items[k].owner_id) \o <<"_">> \o str(items[k].id) = post_id}
    IN  IF same = {} THEN 0
        ELSE LET last == CHOOSE k \in same : \A j \in same : j <= k
             IN  IF items[last].views = None THEN 0 ELSE items[last].views[1]

(* C7: after a successful batch response get_views returned one View       *)
(* Result per input post, in input order, each with the views the response *)
(* gives the post's composite id, 0 when the response omits it, and a      *)
(* total that is the sum of those views.                                   *)
C7_VKSuccessOneResultPerPost ==
    (vk.reply # None /\ vk.reply[1].kind = "json" /\ ~vk.reply[1].error) =>
        /\ vk.ret # None
        /\ Len(DataOf(vk.ret)) = Len(vk_posts)
        /\ \A k \in 1..Len(vk_posts) :
              /\ DataOf(vk.ret)[k].link = vk_posts[k].original_link
              /\ DataOf(vk.ret)[k].views
                    = ResponseViews(vk.reply[1].items, vk_posts[k].post_id)
        /\ Total(vk.ret) = SumViews(DataOf(vk.ret))

(* two posts, the response omits the second: its result is 0 and the total *)
(* is the views of the first                                               *)
C7_Witness ==
    /\ vk.reply # None
    /\ vk.reply[1].kind = "json" /\ ~vk.reply[1].error
    /\ vk.reply[1].items = <<VKItem(-1, 2, Some(100))>>
    /\ vk.ret = Returned(100, <<ViewResult(link_vk1, 100), ViewResult(link_vk2, 0)>>)

(* C8 (as claimed): every link of one of the five VK forms, for owner      *)
(* digits o and post digits p, is accepted with the composite id -o_p.     *)
C8_OwnerIdAlwaysNegative ==
    pc = "vk" =>
        \A k \in 1..Len(links) : \A o \in OwnerDigits, p \in PostDigits :
            links[k] \in {vk_wall_dash(o, p), vk_wall(o, p), vk_com_wall(o, p),
                          vk_com_bare(o, p), vk_com_w(o, p)}
            => /\ \E j \in 1..Len(vk_posts) : vk_posts[j].original_link = links[k]
               /\ \A j \in 1..Len(vk_posts) :
                     vk_posts[j].original_link = links[k]
                     => vk_posts[j].post_id = <<"-">> \o o \o <<"_">> \o p

(* the value of a string of decimal digits, read digit by digit *)
RECURSIVE Decimal(_)
Decimal(s) ==
    IF s = <<>> THEN 0
    ELSE 10 * Decimal(SubSeq(s, 1, Len(s) - 1))
         + (CHOOSE v \in 0..9 : str(v) = <<s[Len(s)]>>)

(* the Telegram posts classification made of link are exactly one post     *)
(* with this channel and message id                                        *)
TelegramPostIs(link, channel, message_id) ==
    /\ \E j \in 1..Len(telegram_posts) : telegram_posts[j].original_link = link
    /\ \A j \in 1..Len(telegram_posts) :
          telegram_posts[j].original_link = link
          => /\ telegram_posts[j].channel = channel
             /\ telegram_posts[j].message_id = message_id

(* C9 (as claimed): a private-channel link host/c/<c>/<m> is classified as *)
(* channel <c>, message <m>; a public link host/(s/)<channel>/<m> as that  *)
(* channel without its leading @, message <m>.                             *)
C9_TelegramChannelAndMessage ==
    pc = "vk" =>
        \A k \in 1..Len(links) : \A h \in TgHosts :
            /\ \A c \in ChannelDigits, m \in MessageDigits :
                  links[k] = tg_private(h, c, m)
                  => TelegramPostIs(links[k], c, Decimal(m))
            /\ \A c \in ChannelNames, m \in MessageDigits :
                  links[k] \in {tg_public(h, c, m), tg_public_s(h, c, m)}
                  => TelegramPostIs(links[k],
                                    IF c[1] = "@" THEN Tail(c) ELSE c, Decimal(m))

(* C10 (as claimed): after classification every input link that is in none *)
(* of the three output sequences had a diagnostic printed for it.          *)
C10_EveryDroppedLinkIsReported ==
    pc = "vk" =>
        \A k \in 1..Len(links) :
            Count(AllRefLinks, links[k]) = 0 => Count(printed, links[k]) > 0

(* how many of the first n entries of the sequence s are the link l *)
CountIn(s, n, l) == Cardinality({k \in 1..n : s[k] = l})

(* C11: a run classifies at most the first 100 links of links.txt: when    *)
(* the file holds more than 100 links, main's links are exactly its first  *)
(* 100, in order, and a later link gives no Post Reference and no          *)
(* diagnostic; no link is accounted for more often than it occurs among    *)
(* the first 100.                                                          *)
C11_OnlyFirstHundredClassified ==
    pc # "start" =>
        LET given == SelectSeq(file, LAMBDA line : line # <<>>)
            kept  == IF Len(given) > 100 THEN 100 ELSE Len(given)
            seen  == AllRefLinks \o printed
        IN  /\ Len(links) = kept
            /\ \A k \in 1..kept : links[k] = given[k]
            /\ Len(seen) <= kept
            /\ \A k \in 1..Len(given) :
                  CountIn(seen, Len(seen), given[k]) <= CountIn(given, kept, given[k])

(* a finished run on a file of 102 links whose 100th is a Telegram post,   *)
(* whose 101st is a VK post and whose 102nd is an OK post: one Telegram    *)
(* reference, no VK and no OK reference, and a report                      *)
C11_Witness ==
    /\ pc = "done"
    /\ Len(file) = 102
    /\ file[101] = link_vk1 /\ file[102] = link_ok1
    /\ Len(links) = 100
    /\ RefLinks(telegram_posts) = <<link_tg1>>
    /\ vk_posts = <<>> /\ ok_posts = <<>>
    /\ Len(printed) = 99
    /\ outcome \in {"total", "no_data"}

(* the platform markers of a link, looked for in its lower-cased text *)
VKMarked(l) == Contains(lower(l), lit_vk_com) \/ startswith(lower(l), lit_wall)

TgMarked(l) == Contains(lower(l), lit_t_me) \/ Contains(lower(l), lit_telegram_me)

OKMarked(l) == Contains(lower(l), lit_ok_ru)

(* the links of posts are the links of the input that have a reference in  *)
(* posts, as often and in the order the input has them                     *)
InInputOrder(posts) ==
    RefLinks(posts) = SelectSeq(links, LAMBDA l : Count(RefLinks(posts), l) > 0)

(* C12: after classification a link has references in at most one of the   *)
(* three sequences, at most one per occurrence: in the VK sequence only    *)
(* when it has a VK marker, in the Telegram sequence only when it has a    *)
(* Telegram marker and no VK marker, in the OK sequence only when it has   *)
(* the OK marker and neither of the others, the markers being looked for   *)
(* in the lower-cased link; and every sequence is in input order.          *)
C12_OnePlatformByPrecedence ==
    pc = "vk" =>
        /\ \A k \in 1..Len(links) :
              LET l == links[k]
              IN  /\ Count(RefLinks(vk_posts), l) > 0 => VKMarked(l)
                  /\ Count(RefLinks(telegram_posts), l) > 0
                        => TgMarked(l) /\ ~VKMarked(l)
                  /\ Count(RefLinks(ok_posts), l) > 0
                        => OKMarked(l) /\ ~TgMarked(l) /\ ~VKMarked(l)
                  /\ Count(AllRefLinks, l) <= Count(links, l)
        /\ InInputOrder(vk_posts)
        /\ InInputOrder(telegram_posts)
        /\ InInputOrder(ok_posts)

(* ok.ru/t.me/x/1 has the Telegram and the OK marker and becomes a         *)
(* Telegram reference only; t.me/vk.com/1 has the VK and the Telegram      *)
(* marker, no VK pattern matches it and it becomes no reference at all     *)
C12_Witness ==
    /\ pc = "vk"
    /\ links = <<<<"o","k",".","r","u","/","t",".","m","e","/","x","/","1">>,
                 <<"t",".","m","e","/","v","k",".","c","o","m","/","1">>>>
    /\ RefLinks(telegram_posts) = <<links[1]>>
    /\ vk_posts = <<>>
    /\ ok_posts = <<>>

(* the View Result and the subtotal OKParser.get_views gives the k-th post *)
(* when it is the only post and its fetch meets the same outcome           *)
AloneOK(k) == ok_loop(<<ok_posts[k]>>, <<okp.replies[k]>>, 1)

(* C13: whatever the fetches of the OK posts met, get_views returned; it   *)
(* returned one View Result per post, in input order, with views 0 for a   *)
(* post whose fetch met a transport error, a status other than 200 or an   *)
(* exception of the extraction; and every post has the result it has when  *)
(* it is fetched alone with the same outcome.                              *)
C13_OKFailuresAreIsolated ==
    /\ (pc \in {"report", "done"} /\ ok_posts # <<>>) => okp.ret # None
    /\ (okp.ret # None /\ ok_posts # <<>>) =>
          /\ Len(okp.replies) = Len(ok_posts)
          /\ Len(DataOf(okp.ret)) = Len(ok_posts)
          /\ \A k \in 1..Len(ok_posts) :
                /\ DataOf(okp.ret)[k].link = ok_posts[k].original_link
                /\ (okp.replies[k].kind # "page" \/ okp.replies[k].status # 200)
                      => DataOf(okp.ret)[k].views = 0
                /\ DataOf(okp.ret)[k] = AloneOK(k).data[1]

(* two OK posts: the fetch of the first meets a transport error, the page  *)
(* of the second gives 1234 views                                          *)
C13_Witness ==
    /\ pc = "report"
    /\ Len(ok_posts) = 2
    /\ okp.replies[1].kind = "transport"
    /\ okp.replies[2] = [kind |-> "page", status |-> 200, numbers |-> <<5, 1234, 2000000>>]
    /\ okp.ret = Returned(1234, <<ViewResult(link_ok1, 0), ViewResult(link_ok1, 1234)>>)

(* the candidates of a page the heuristic keeps *)
Kept(numbers) == {numbers[j] : j \in {i \in 1..Len(numbers) : 10 < numbers[i] /\ numbers[i] < 1000000}}

(* C14: the views of an OK post whose page came with status 200 are the    *)
(* largest of the page's candidates n with 10 < n < 1000000, and 0 when    *)
(* the page has no such candidate; so they are 0 or lie strictly between   *)
(* 10 and 1000000.                                                         *)
C14_LargestPlausibleCandidate ==
    (okp.ret # None /\ ok_posts # <<>>) =>
        \A k \in 1..Len(okp.replies) :
            LET views == DataOf(okp.ret)[k].views
                kept  == Kept(okp.replies[k].numbers)
            IN  (okp.replies[k].kind = "page" /\ okp.replies[k].status = 200) =>
                    /\ kept = {} => views = 0
                    /\ kept # {} => views \in kept /\ \A n \in kept : n <= views
                    /\ views = 0 \/ (10 < views /\ views < 1000000)

(* a page with the candidates 5, 1234 and 2000000 gives 1234; a page with  *)
(* the candidates 10 and 1000000 gives 0                                   *)
C14_Witness ==
    /\ okp.ret # None
    /\ Len(ok_posts) = 2
    /\ okp.replies[1] = [kind |-> "page", status |-> 200, numbers |-> <<5, 1234, 2000000>>]
    /\ okp.replies[2] = [kind |-> "page", status |-> 200, numbers |-> <<10, 1000000>>]
    /\ DataOf(okp.ret)[1].views = 1234
    /\ DataOf(okp.ret)[2].views = 0

ReturnedAtOnce(p, new) == p = [new EXCEPT !.ret = Returned(0, <<>>)]

(* C16: in a run of main a platform without references leaves its parser   *)
(* as it was constructed: get_views is not called, nothing is prompted for, *)
(* requested or connected to.  A fetcher called on its own with an empty   *)
(* list returns (0, []) and does nothing else: no prompt, no request, no   *)
(* client, no page fetch, no delay; the credential store is not written.   *)
C16_NoReferencesNoActivity ==
    /\ pc # "direct" =>
          /\ vk_posts = <<>> => vk = NewVKParser
          /\ telegram_posts = <<>> => tg = NewTelegramParser
          /\ ok_posts = <<>> => okp = NewOKParser
    /\ pc = "direct" =>
          /\ vk_posts = <<>> => vk = NewVKParser \/ ReturnedAtOnce(vk, NewVKParser)
          /\ telegram_posts = <<>> =>
                \/ tg = NewTelegramParser
                \/ ReturnedAtOnce(tg, [NewTelegramParser EXCEPT !.pc = "returned"])
          /\ ok_posts = <<>> => okp = NewOKParser \/ ReturnedAtOnce(okp, NewOKParser)
          /\ (vk_posts = <<>> /\ telegram_posts = <<>>) => config \in {EmptyConfig, StoredConfig}

(* the three fetchers each called with an empty list while no credential   *)
(* is stored: each has returned (0, []), and nothing was prompted for      *)
C16_Witness ==
    /\ pc = "direct"
    /\ config = EmptyConfig
    /\ vk_posts = <<>> /\ telegram_posts = <<>> /\ ok_posts = <<>>
    /\ vk.ret = Returned(0, <<>>) /\ vk.prompts = 0 /\ vk.requests = 0
    /\ tg.ret = Returned(0, <<>>) /\ tg.prompts = 0 /\ tg.starts = 0
    /\ okp.ret = Returned(0, <<>>) /\ okp.events = <<>>

(* how many of the first k replies are rate-limit signals *)
Floods(k) == Cardinality({j \in 1..k : tg.replies[j].kind = "flood"})

(* the views of the messages among the replies *)
RECURSIVE RepliedViews(_)
RepliedViews(replies) ==
    IF replies = <<>> THEN 0
    ELSE RepliedViews(Tail(replies))
            + (IF Head(replies).kind = "message" /\ Head(replies).views # None
               THEN Head(replies).views[1] ELSE 0)

(* C17: a Telegram post whose get_messages raised an error that is not a   *)
(* rate-limit signal has a View Result with its link and 0 views, at the   *)
(* place its turn gives it; the total is the views of the messages         *)
(* received, so the failed post adds nothing; and the loop is only left    *)
(* for the disconnect when every post has been tried.                      *)
C17_TelegramErrorGivesZero ==
    LET n == Len(tg.replies)
    IN  /\ \A k \in 1..n :
              tg.replies[k].kind = "error" =>
                  /\ k - Floods(k) \in 1..Len(tg.data)
                  /\ tg.data[k - Floods(k)]
                        = ViewResult(telegram_posts[k].original_link, 0)
        /\ tg.total_views = RepliedViews(tg.replies)
        /\ (n > 0 /\ tg.replies[n].kind = "error") => tg.pc # "floodwait"
        /\ (tg.pc \in {"disconnect", "raised"} \/ tg.client = "disconnected")
              => n = Len(telegram_posts)

(* the first of two posts fails, the second is fetched and has 10 views *)
C17_Witness ==
    /\ tg.pc = "returned"
    /\ RefLinks(telegram_posts) = <<link_tg1, link_tg2>>
    /\ tg.replies = <<[kind |-> "error", views |-> None, seconds |-> 0],
                      [kind |-> "message", views |-> Some(10), seconds |-> 0]>>
    /\ tg.ret = Returned(10, <<ViewResult(link_tg1, 0), ViewResult(link_tg2, 10)>>)

(* the calls of OKParser.get_views: a page fetch and a delay for every     *)
(* post, in turns                                                          *)
OKFetchesAndDelaysAlternate ==
    /\ Len(okp.events) = 2 * Len(okp.replies)
    /\ \A j \in 1..Len(okp.events) :
          okp.events[j] = IF j % 2 = 1 THEN "get" ELSE "sleep"
    /\ okp.slept = ok_delay_ms * Len(okp.replies)

(* C18: the Telegram fetch makes one attempt at a time; an attempt is      *)
(* followed by the delay of 0.5 s, after the wait a rate-limit signal asks *)
(* for, whatever the attempt met; the next attempt, and the disconnect,    *)
(* only come out of that delay.  The OK fetch makes a page fetch and a     *)
(* delay of 2 s in turns, one pair per post, whatever the fetch met.       *)
C18_DelayAfterEveryAttempt ==
    [][ /\ Len(tg'.replies) # Len(tg.replies) =>
              \/ /\ Len(tg'.replies) = Len(tg.replies) + 1
                 /\ tg.pc = "fetch"
                 /\ tg'.pc = IF tg'.replies[Len(tg'.replies)].kind = "flood"
                             THEN "floodwait" ELSE "delay"
              \/ tg'.replies = <<>>
        /\ (tg.pc = "floodwait" /\ tg'.pc # "floodwait") => tg'.pc \in {"delay", "aborted"}
        /\ (tg'.pc \in {"fetch", "disconnect"} /\ tg.pc # tg'.pc) =>
              \/ tg.pc = "connect" /\ tg'.pc = "fetch" /\ tg'.replies = <<>>
              \/ tg.pc = "delay" /\ tg'.slept = tg.slept + tg_delay_ms
        /\ OKFetchesAndDelaysAlternate' ]_vars

(* a Telegram fetch of two posts, the first rate-limited for 5 s and the   *)
(* second failing, has slept 5 s and twice 0.5 s; an OK fetch of one post  *)
(* that met a transport error has slept 2 s after it                       *)
C18_Witness ==
    /\ pc = "report"
    /\ tg.pc = "returned"
    /\ Len(tg.replies) = 2
    /\ tg.replies[1].kind = "flood" /\ tg.replies[2].kind = "error"
    /\ tg.slept = 5000 + 2 * tg_delay_ms
    /\ Len(okp.replies) = 1
    /\ okp.replies[1].kind = "transport"
    /\ okp.events = <<"get", "sleep">>
    /\ okp.slept = ok_delay_ms

(* the steps of get_views_async: where it is now, where it may be next *)
TelegramSteps ==
    {<<"idle", "connect">>, <<"idle", "returned">>,
     <<"connect", "fetch">>, <<"connect", "returned">>,
     <<"fetch", "delay">>, <<"fetch", "floodwait">>, <<"floodwait", "delay">>,
     <<"delay", "fetch">>, <<"delay", "disconnect">>,
     <<"fetch", "aborted">>, <<"floodwait", "aborted">>, <<"delay", "aborted">>,
     <<"disconnect", "returned">>, <<"disconnect", "raised">>}

(* C19: a Telegram fetch goes from its start to the connection attempt, to *)
(* the per-post fetches and to the disconnect in this order only; client   *)
(* start is attempted at most once and disconnect called at most once; a   *)
(* message is only asked for, and a reply only exists, with a client that  *)
(* is connected and not yet disconnected; and a fetch whose connection     *)
(* attempt failed has asked for no message and returns (0, []).            *)
C19_OneConnectionFetchWhileConnected ==
    [][ /\ tg'.pc # tg.pc => (<<tg.pc, tg'.pc>> \in TelegramSteps \/ tg' = NewTelegramParser)
        /\ tg'.starts <= 1 /\ tg'.disconnects <= 1
        /\ tg'.pc \in {"fetch", "floodwait", "delay"} =>
              tg'.client = "connected" /\ tg'.starts = 1 /\ tg'.disconnects = 0
        /\ Len(tg'.replies) > Len(tg.replies) =>
              tg.client = "connected" /\ tg.disconnects = 0
        /\ tg'.client \in {"none", "created"} =>
              /\ tg'.replies = <<>>
              /\ tg'.pc \in {"idle", "connect", "returned"}
              /\ tg'.pc = "returned" => tg'.ret = Returned(0, <<>>)
        /\ tg'.client = "disconnected" => tg'.pc = "returned" /\ tg'.disconnects = 1 ]_vars

(* a fetch of three posts over one connection, disconnected at its end *)
C19_Witness ==
    /\ tg.pc = "returned"
    /\ tg.client = "disconnected"
    /\ tg.starts = 1 /\ tg.disconnects = 1
    /\ Len(telegram_posts) = 3
    /\ Len(tg.replies) = 3

(* a is b with some of its entries left out *)
RECURSIVE IsSubsequence(_, _)
IsSubsequence(a, b) ==
    IF a = <<>> THEN TRUE
    ELSE IF b = <<>> THEN FALSE
    ELSE IF Head(a) = Head(b) THEN IsSubsequence(Tail(a), Tail(b))
    ELSE IsSubsequence(a, Tail(b))

(* C20: the original link of every Post Reference is a link of the input,  *)
(* character for character, and the references of a platform follow the    *)
(* order of the input; a View Result of VK or OK carries the original link *)
(* of the reference at its place, a View Result of Telegram that of the    *)
(* reference whose attempt produced it; and the links of a platform's View *)
(* Results are those of its references, in their order, some left out.     *)
C20_LinksAreCarriedVerbatim ==
    /\ InInputOrder(vk_posts) /\ InInputOrder(telegram_posts) /\ InInputOrder(ok_posts)
    /\ \A k \in 1..Len(DataOf(vk.ret)) :
          DataOf(vk.ret)[k].link = vk_posts[k].original_link
    /\ \A k \in 1..Len(DataOf(okp.ret)) :
          DataOf(okp.ret)[k].link = ok_posts[k].original_link
    /\ \A k \in 1..Len(tg.replies) :
          (tg.replies[k].kind # "flood" /\ k - Floods(k) <= Len(tg.data)) =>
              tg.data[k - Floods(k)].link = telegram_posts[k].original_link
    /\ IsSubsequence(VKProduced, RefLinks(vk_posts))
    /\ IsSubsequence(TgProduced, RefLinks(telegram_posts))
    /\ IsSubsequence(OKProduced, RefLinks(ok_posts))

(* VK.com/wall1_3 is matched in lower case and fetched and reported with   *)
(* its capitals; the two Telegram results are in the order of the input    *)
C20_Witness ==
    /\ pc = "done"
    /\ links = <<link_vk2, link_tg1, link_tg2>>
    /\ lower(link_vk2) # link_vk2
    /\ vk_posts = <<[post_id |-> <<"-","1","_","3">>, original_link |-> link_vk2]>>
    /\ vk.ret = Returned(7, <<ViewResult(link_vk2, 7)>>)
    /\ tg.ret # None
    /\ TgProduced = <<link_tg1, link_tg2>>

(* C21: whenever get_views of the VK, the Telegram or the OK parser has    *)
(* returned, to main or to a caller of its own, with posts or without,     *)
(* after a failure of the whole platform or of single posts or after       *)
(* rate-limit skips, the subtotal it returned is the sum of the views of   *)
(* the View Results it returned.                                           *)
C21_SubtotalIsSumOfResults ==
    /\ vk.ret # None => Total(vk.ret) = SumViews(DataOf(vk.ret))
    /\ tg.ret # None => Total(tg.ret) = SumViews(DataOf(tg.ret))
    /\ okp.ret # None => Total(okp.ret) = SumViews(DataOf(okp.ret))

(* a VK response with two items of the same post, of 100 and of 60 views,  *)
(* gives the result and the subtotal 60; a Telegram fetch whose first post *)
(* is rate-limited and whose second has 20 views gives one result and the  *)
(* subtotal 20                                                             *)
C21_Witness ==
    /\ pc = "done"
    /\ vk.reply # None
    /\ vk.reply[1].items = <<VKItem(-1, 2, Some(100)), VKItem(-1, 2, Some(60))>>
    /\ vk.ret = Returned(60, <<ViewResult(link_vk1, 60)>>)
    /\ Len(tg.replies) = 2
    /\ tg.replies[1].kind = "flood"
    /\ tg.ret = Returned(20, <<ViewResult(link_tg2, 20)>>)

====
